---- MODULE Spec2Model ----
(***************************************************************************)
(* Byte Pair Encoding encoder/decoder (bpe_encoder.py) and its callers.    *)
(*                                                                         *)
(* A merge table is a Python dict {(p0, p1): idx}; it is modelled as the   *)
(* sequence of its items in insertion order, each item a record            *)
(* [pair |-> <<p0, p1>>, idx |-> n], with pairwise distinct pairs.         *)
(* Byte strings are sequences of integers 0..255, text is a sequence of    *)
(* Unicode code points, and a JSON key is a sequence of one-character      *)
(* strings.                                                                *)
(***************************************************************************)
EXTENDS Integers, Sequences, FiniteSets, TLC

VARIABLES
    status,      \* "none": no encoder yet; "ok": constructed; else the exception raised
    merges,      \* self.merges
    vocab_size,  \* self.vocab_size
    vocab,       \* self._vocab
    pc,          \* "idle", or "encode" while BPEEncoder.encode runs its loop
    caller,      \* who called encode: "encode" (direct) or "roundtrip" (app.roundtrip)
    text,        \* encode's argument
    tokens,      \* encode's local list
    passes,      \* merge passes done by the running encode call
    prevTokens,  \* tokens before the last merge pass
    lastRule,    \* the item (pair, idx) the last merge pass applied
    ret,         \* what the last finished call returned or raised
    file,        \* the JSON file: [merges, vocab_size, num_merges]
    loaded       \* the encoder returned by from_file on the saved file

vars == <<status, merges, vocab_size, vocab, pc, caller, text, tokens, passes,
          prevTokens, lastRule, ret, file, loaded>>

(***************************************************************************)
(* Bounds of the model.                                                    *)
(***************************************************************************)
MaxRules == 2      \* items in a merge table handed to __init__
MaxText == 3       \* code points in a text handed to encode
MaxIds == 2        \* ids in a list handed to decode
MaxEntries == 2    \* entries of "merges" in a persisted file

(***************************************************************************)
(* Program constants.                                                      *)
(***************************************************************************)
BaseTokens == 256          \* range(256)
DefaultVocabSize == 5000   \* vocab_size: int = 5000
Replacement == 65533       \* U+FFFD, what errors="replace" substitutes


(***************************************************************************)
(* Inputs.                                                                 *)
(***************************************************************************)
\* 'a' and 'e-acute' (UTF-8: 195 169)
Alphabet == {97, 233}
\* (a, a), the two bytes of e-acute, a merged token followed by a, and the second
\* byte of e-acute followed by a
RuleKeys == {<<97, 97>>, <<195, 169>>, <<256, 97>>, <<169, 97>>}
Results == {97, 256, 257}
IdUniverse == {97, 169, 256, 300}

SeqsUpTo(S, n) == UNION {[1..k -> S] : k \in 0..n}

Item(p0, p1, idx) == [pair |-> <<p0, p1>>, idx |-> idx]
RuleUniverse == {Item(k[1], k[2], x) : k \in RuleKeys, x \in Results}

\* A dict has one item per key.
DistinctKeys(m) == \A i, j \in 1..Len(m) : i # j => m[i].pair # m[j].pair
Tables == {m \in SeqsUpTo(RuleUniverse, MaxRules) : DistinctKeys(m)}
Texts == SeqsUpTo(Alphabet, MaxText)
IdLists == SeqsUpTo(IdUniverse, MaxIds)

(***************************************************************************)
(* dict helpers                                                            *)
(***************************************************************************)
Keys(m) == {m[i].pair : i \in 1..Len(m)}
Values(m) == {m[i].idx : i \in 1..Len(m)}
\* m[pair], for pair in m
Get(m, pair) == (CHOOSE i \in 1..Len(m) : m[i].pair = pair)
Lookup(m, pair) == m[Get(m, pair)].idx

\* m[pair] = idx: a new key is appended, an old key keeps its place
SetItem(m, pair, idx) ==
    IF pair \in Keys(m)
    THEN [m EXCEPT ![Get(m, pair)] = [pair |-> pair, idx |-> idx]]
    ELSE Append(m, [pair |-> pair, idx |-> idx])

(***************************************************************************)
(* _build_vocab                                                            *)
(***************************************************************************)
\* sorted(..., key=lambda x: x[1]) is stable: among equal idx the dict order stays
RECURSIVE InsertSorted(_, _)
InsertSorted(s, x) ==
    IF s = <<>> THEN <<x>>
    ELSE IF s[Len(s)].idx <= x.idx THEN Append(s, x)
    ELSE Append(InsertSorted(SubSeq(s, 1, Len(s) - 1), x), s[Len(s)])

RECURSIVE SortedMerges(_)
SortedMerges(m) ==
    IF m = <<>> THEN <<>>
    ELSE InsertSorted(SortedMerges(SubSeq(m, 1, Len(m) - 1)), m[Len(m)])

BaseVocab == [idx \in 0..(BaseTokens - 1) |-> <<idx>>]

\* _build_vocab with the two halves of a merged token swapped
RECURSIVE ReplayMergesSwapped(_, _, _)
ReplayMergesSwapped(sorted, k, v) ==
    IF k > Len(sorted) THEN [status |-> "ok", vocab |-> v]
    ELSE LET p0 == sorted[k].pair[1]
             p1 == sorted[k].pair[2]
             idx == sorted[k].idx
         IN IF p0 \notin DOMAIN v \/ p1 \notin DOMAIN v
            THEN [status |-> "KeyError", vocab |-> v]
            ELSE ReplayMergesSwapped(sorted, k + 1,
                     [x \in DOMAIN v \cup {idx} |->
                          IF x = idx THEN v[p1] \o v[p0] ELSE v[x]])

\* The loop of _build_vocab from its k-th sorted item on; vocab[p0] or vocab[p1]
\* of an id that has no entry raises KeyError.
RECURSIVE ReplayMerges(_, _, _)
ReplayMerges(sorted, k, v) ==
    IF k > Len(sorted) THEN [status |-> "ok", vocab |-> v]
    ELSE LET p0 == sorted[k].pair[1]
             p1 == sorted[k].pair[2]
             idx == sorted[k].idx
         IN IF p0 \notin DOMAIN v \/ p1 \notin DOMAIN v
            THEN [status |-> "KeyError", vocab |-> v]
            ELSE ReplayMerges(sorted, k + 1,
                     [x \in DOMAIN v \cup {idx} |->
                          IF x = idx THEN v[p0] \o v[p1] ELSE v[x]])

BuildVocab(m) == ReplayMerges(SortedMerges(m), 1, BaseVocab)

(***************************************************************************)
(* str.encode("utf-8") and bytes.decode("utf-8", errors="replace")         *)
(***************************************************************************)
EncodeCodePoint(cp) ==
    IF cp < 128 THEN <<cp>>
    ELSE IF cp < 2048 THEN <<192 + (cp \div 64), 128 + (cp % 64)>>
    ELSE IF cp < 65536
         THEN <<224 + (cp \div 4096), 128 + ((cp \div 64) % 64), 128 + (cp % 64)>>
    ELSE <<240 + (cp \div 262144), 128 + ((cp \div 4096) % 64),
           128 + ((cp \div 64) % 64), 128 + (cp % 64)>>

RECURSIVE Utf8Encode(_)
Utf8Encode(t) ==
    IF t = <<>> THEN <<>> ELSE EncodeCodePoint(Head(t)) \o Utf8Encode(Tail(t))

IsCont(b) == b >= 128 /\ b <= 191

\* The bytes that may follow lead byte c (well-formed UTF-8: no overlong form,
\* no surrogate, nothing above U+10FFFF).
SecondOk(c, b) ==
    IF c = 224 THEN b >= 160 /\ b <= 191
    ELSE IF c = 237 THEN b >= 128 /\ b <= 159
    ELSE IF c = 240 THEN b >= 144 /\ b <= 191
    ELSE IF c = 244 THEN b >= 128 /\ b <= 143
    ELSE IsCont(b)

\* Continuation bytes lead byte c asks for; 0 for ASCII, -1 for an invalid start byte.
Need(c) ==
    IF c < 128 THEN 0
    ELSE IF c >= 194 /\ c <= 223 THEN 1
    ELSE IF c >= 224 /\ c <= 239 THEN 2
    ELSE IF c >= 240 /\ c <= 244 THEN 3
    ELSE -1

\* How many of the bytes after position i continue the sequence b[i] starts (at most Need).
RECURSIVE GoodCont(_, _, _)
GoodCont(b, i, k) ==
    IF k > Need(b[i]) \/ i + k > Len(b) THEN k - 1
    ELSE IF (IF k = 1 THEN SecondOk(b[i], b[i + 1]) ELSE IsCont(b[i + k]))
         THEN GoodCont(b, i, k + 1)
    ELSE k - 1

CodePointAt(b, i) ==
    LET n == Need(b[i])
    IN IF n = 0 THEN b[i]
       ELSE IF n = 1 THEN (b[i] - 192) * 64 + (b[i + 1] - 128)
       ELSE IF n = 2
            THEN (b[i] - 224) * 4096 + (b[i + 1] - 128) * 64 + (b[i + 2] - 128)
       ELSE (b[i] - 240) * 262144 + (b[i + 1] - 128) * 4096
            + (b[i + 2] - 128) * 64 + (b[i + 3] - 128)

\* errors="replace": an invalid start byte, or a sequence cut short by a byte that
\* does not continue it or by the end of the data, becomes one U+FFFD; decoding
\* goes on at the byte that did not fit.
RECURSIVE Utf8DecodeFrom(_, _)
Utf8DecodeFrom(b, i) ==
    IF i > Len(b) THEN <<>>
    ELSE LET n == Need(b[i])
             g == IF n < 0 THEN 0 ELSE GoodCont(b, i, 1)
         IN IF n >= 0 /\ g = n
            THEN <<CodePointAt(b, i)>> \o Utf8DecodeFrom(b, i + n + 1)
            ELSE <<Replacement>> \o Utf8DecodeFrom(b, i + g + 1)

Utf8Decode(b) == Utf8DecodeFrom(b, 1)

(***************************************************************************)
(* _get_stats, _merge and the pair selection of encode                     *)
(***************************************************************************)
PairAt(ids, i) == <<ids[i], ids[i + 1]>>

\* The keys of the dict _get_stats returns, in insertion order: each adjacent
\* pair at the place of its first occurrence.
RECURSIVE StatsKeysFrom(_, _, _)
StatsKeysFrom(ids, i, acc) ==
    IF i >= Len(ids) THEN acc
    ELSE StatsKeysFrom(ids, i + 1,
             IF \E k \in 1..Len(acc) : acc[k] = PairAt(ids, i)
             THEN acc ELSE Append(acc, PairAt(ids, i)))

Occurrences(ids, pair) == Cardinality({i \in 1..(Len(ids) - 1) : PairAt(ids, i) = pair})

\* _get_stats(ids), as the sequence of its items
GetStats(ids) ==
    LET ks == StatsKeysFrom(ids, 1, <<>>)
    IN [k \in 1..Len(ks) |-> [pair |-> ks[k], count |-> Occurrences(ids, ks[k])]]

\* self.merges.get(p, float("inf")) of p is below that of q
KeyLess(m, p, q) ==
    /\ p \in Keys(m)
    /\ (q \in Keys(m) => Lookup(m, p) < Lookup(m, q))

\* The first pair, in dict order, that has a rule, whatever its result
MinPairFirstRule(m, stats) ==
    IF \E k \in 1..Len(stats) : stats[k].pair \in Keys(m)
    THEN stats[CHOOSE k \in 1..Len(stats) :
                   /\ stats[k].pair \in Keys(m)
                   /\ \A j \in 1..(k - 1) : stats[j].pair \notin Keys(m)].pair
    ELSE stats[1].pair

\* min(stats, key=...): the first key, in dict order, that no other key is below
MinPair(m, stats) ==
    LET k == CHOOSE k \in 1..Len(stats) :
                 /\ \A j \in 1..Len(stats) : ~KeyLess(m, stats[j].pair, stats[k].pair)
                 /\ \A j \in 1..(k - 1) :
                        \E l \in 1..Len(stats) : KeyLess(m, stats[l].pair, stats[j].pair)
    IN stats[k].pair

RECURSIVE MergeFrom(_, _, _, _)
MergeFrom(ids, pair, idx, i) ==
    IF i > Len(ids) THEN <<>>
    ELSE IF i < Len(ids) /\ ids[i] = pair[1] /\ ids[i + 1] = pair[2]
         THEN <<idx>> \o MergeFrom(ids, pair, idx, i + 2)
    ELSE <<ids[i]>> \o MergeFrom(ids, pair, idx, i + 1)

\* _merge that advances by one after a match
RECURSIVE MergeNoSkipFrom(_, _, _, _)
MergeNoSkipFrom(ids, pair, idx, i) ==
    IF i > Len(ids) THEN <<>>
    ELSE IF i < Len(ids) /\ ids[i] = pair[1] /\ ids[i + 1] = pair[2]
         THEN <<idx>> \o MergeNoSkipFrom(ids, pair, idx, i + 1)
    ELSE <<ids[i]>> \o MergeNoSkipFrom(ids, pair, idx, i + 1)

MergeNoSkip(ids, pair, idx) == MergeNoSkipFrom(ids, pair, idx, 1)

\* _merge(ids, pair, idx)
Merge(ids, pair, idx) == MergeFrom(ids, pair, idx, 1)

\* b"".join(self._vocab[idx] for idx in ids), every idx having an entry
RECURSIVE JoinVocab(_, _)
JoinVocab(v, ids) ==
    IF ids = <<>> THEN <<>> ELSE v[Head(ids)] \o JoinVocab(v, Tail(ids))

\* decode that skips the ids without entry (self._vocab.get(idx, b""))
DecodeDropsUnknown(v, ids) ==
    LET known == {i \in 1..Len(ids) : ids[i] \in DOMAIN v}
        nth(k) == CHOOSE i \in known : Cardinality({j \in known : j <= i}) = k
    IN [err |-> "none",
        text |-> Utf8Decode(JoinVocab(v, [k \in 1..Cardinality(known) |-> ids[nth(k)]]))]

\* decode(ids): self._vocab[idx] of an id without entry raises KeyError
Decode(v, ids) ==
    IF \E i \in 1..Len(ids) : ids[i] \notin DOMAIN v
    THEN [err |-> "KeyError", text |-> <<>>]
    ELSE [err |-> "none", text |-> Utf8Decode(JoinVocab(v, ids))]

(***************************************************************************)
(* The persisted file: save and from_file                                  *)
(***************************************************************************)
Digits == <<"0", "1", "2", "3", "4", "5", "6", "7", "8", "9">>
IsDigit(c) == \E d \in 1..10 : Digits[d] = c
DigitValue(c) == (CHOOSE d \in 1..10 : Digits[d] = c) - 1

\* f"{n}" of an int
RECURSIVE FormatNat(_)
FormatNat(n) ==
    IF n < 10 THEN <<Digits[n + 1]>>
    ELSE Append(FormatNat(n \div 10), Digits[(n % 10) + 1])

FormatInt(n) == IF n < 0 THEN <<"-">> \o FormatNat(-n) ELSE FormatNat(n)

\* f"{k[1]},{k[0]}"
FormatKeySwapped(pair) == FormatInt(pair[2]) \o <<",">> \o FormatInt(pair[1])

\* f"{k[0]},{k[1]}"
FormatKey(pair) == FormatInt(pair[1]) \o <<",">> \o FormatInt(pair[2])

\* key.split(',')
RECURSIVE SplitFrom(_, _, _)
SplitFrom(s, i, acc) ==
    IF i > Len(s) THEN acc
    ELSE IF s[i] = "," THEN SplitFrom(s, i + 1, Append(acc, <<>>))
    ELSE SplitFrom(s, i + 1, [acc EXCEPT ![Len(acc)] = Append(@, s[i])])

Split(s) == SplitFrom(s, 1, << <<>> >>)

RECURSIVE LStrip(_)
LStrip(s) == IF s # <<>> /\ Head(s) = " " THEN LStrip(Tail(s)) ELSE s

RECURSIVE RStrip(_)
RStrip(s) ==
    IF s # <<>> /\ s[Len(s)] = " " THEN RStrip(SubSeq(s, 1, Len(s) - 1)) ELSE s

RECURSIVE DigitsValue(_, _)
DigitsValue(s, acc) ==
    IF s = <<>> THEN acc
    ELSE IF Head(s) = "_" THEN DigitsValue(Tail(s), acc)
    ELSE DigitsValue(Tail(s), acc * 10 + DigitValue(Head(s)))

\* int(s): blanks around the literal, a sign, and single underscores between
\* digits are accepted; anything else raises ValueError
ParseInt(s) ==
    LET t == RStrip(LStrip(s))
        signed == t # <<>> /\ Head(t) \in {"+", "-"}
        u == IF signed THEN Tail(t) ELSE t
        wellFormed ==
            /\ u # <<>>
            /\ \A i \in 1..Len(u) : IsDigit(u[i]) \/ u[i] = "_"
            /\ IsDigit(u[1]) /\ IsDigit(u[Len(u)])
            /\ \A i \in 1..(Len(u) - 1) : ~(u[i] = "_" /\ u[i + 1] = "_")
    IN IF ~wellFormed THEN [ok |-> FALSE, val |-> 0]
       ELSE [ok |-> TRUE,
             val |-> IF signed /\ Head(t) = "-"
                     THEN 0 - DigitsValue(u, 0) ELSE DigitsValue(u, 0)]

\* k1, k2 = map(int, key.split(',')): exactly two fields, each an int
ParseKey(key) ==
    LET fields == Split(key)
    IN IF Len(fields) = 2 /\ ParseInt(fields[1]).ok /\ ParseInt(fields[2]).ok
       THEN [ok |-> TRUE, pair |-> <<ParseInt(fields[1]).val, ParseInt(fields[2]).val>>]
       ELSE [ok |-> FALSE, pair |-> <<>>]

Entry(key, value) == [key |-> key, value |-> value]

\* merges_json = {f"{k[0]},{k[1]}": v for k, v in self.merges.items()}
RECURSIVE MergesJson(_, _, _)
MergesJson(m, k, acc) ==
    IF k > Len(m) THEN acc
    ELSE LET key == FormatKey(m[k].pair)
         IN MergesJson(m, k + 1,
                IF \E j \in 1..Len(acc) : acc[j].key = key
                THEN [j \in 1..Len(acc) |->
                         IF acc[j].key = key THEN Entry(key, m[k].idx) ELSE acc[j]]
                ELSE Append(acc, Entry(key, m[k].idx)))

NoFile == [exists |-> FALSE, merges |-> <<>>, has_vocab_size |-> FALSE,
           vocab_size |-> 0, num_merges |-> 0, description |-> FALSE]

\* the data BPEEncoder.save dumps
SaveData(m, vs) ==
    [exists |-> TRUE, merges |-> MergesJson(m, 1, <<>>), has_vocab_size |-> TRUE,
     vocab_size |-> vs, num_merges |-> Len(m), description |-> FALSE]

NoEncoder(why) == [status |-> why, merges |-> <<>>, vocab_size |-> 0, vocab |-> <<>>]

\* BPEEncoder(m, vs): __init__ runs _build_vocab; an exception leaves no object
Construct(m, vs) ==
    LET b == BuildVocab(m)
    IN IF b.status = "ok"
       THEN [status |-> "ok", merges |-> m, vocab_size |-> vs, vocab |-> b.vocab]
       ELSE NoEncoder(b.status)

\* The loop of from_file over data["merges"].items(), from entry k on
RECURSIVE ParseEntries(_, _, _)
ParseEntries(entries, k, m) ==
    IF k > Len(entries) THEN [ok |-> TRUE, merges |-> m]
    ELSE LET key == ParseKey(entries[k].key)
         IN IF ~key.ok THEN [ok |-> FALSE, merges |-> m]
            ELSE ParseEntries(entries, k + 1, SetItem(m, key.pair, entries[k].value))

\* BPEEncoder.from_file(filepath)
FromFile(f) ==
    IF ~f.exists THEN NoEncoder("FileNotFoundError")
    ELSE LET parsed == ParseEntries(f.merges, 1, <<>>)
         IN IF ~parsed.ok THEN NoEncoder("ValueError")
            ELSE Construct(parsed.merges,
                           IF f.has_vocab_size THEN f.vocab_size ELSE DefaultVocabSize)

(***************************************************************************)
(* Persisted files handed to from_file: keys as save writes them, and keys *)
(* a hand-edited or foreign file may hold.                                 *)
(***************************************************************************)
KeyStrings ==
    { <<"9", "7", ",", "9", "7">>,                       \* "97,97"
      <<"1", "9", "5", ",", "1", "6", "9">>,             \* "195,169"
      <<"2", "5", "6", ",", "9", "7">>,                  \* "256,97"
      <<" ", "9", "7", ",", "9", "7">>,                  \* " 97,97"
      <<"1", "9", "5", ",", " ", "1", "6", "9">>,        \* "195, 169"
      <<"+", "9", "7", ",", "1", "6", "9">>,             \* "+97,169"
      <<"9", "7", ",">>,                                 \* "97,"
      <<"9", "7">>,                                      \* "97"
      <<"9", "7", ",", "9", "7", ",", "9", "7">>,        \* "97,97,97"
      <<"x", ",", "9", "7">> }                           \* "x,97"
FileValues == {97, 256, 257}
FileVocabSizes == {300}

FileEntries == {Entry(k, v) : k \in KeyStrings, v \in FileValues}
\* A JSON object read by json.load has one value per key string.
DistinctKeyStrings(es) == \A i, j \in 1..Len(es) : i # j => es[i].key # es[j].key
FileWith(es, h, vs) ==
    [exists |-> TRUE, merges |-> es, has_vocab_size |-> h, vocab_size |-> vs,
     num_merges |-> Len(es), description |-> TRUE]
Files ==
    LET ess == {e \in SeqsUpTo(FileEntries, MaxEntries) : DistinctKeyStrings(e)}
    IN {FileWith(es, TRUE, vs) : es \in ess, vs \in FileVocabSizes}
       \cup {FileWith(es, FALSE, 0) : es \in ess}

(***************************************************************************)
(* State machine                                                           *)
(***************************************************************************)
NoRule == [pair |-> <<>>, idx |-> 0]
Call(op, arg, val) == [op |-> op, arg |-> arg, val |-> val]
NoCall == Call("none", <<>>, <<>>)

NoActivation ==
    /\ pc = "idle" /\ caller = "none" /\ text = <<>> /\ tokens = <<>>
    /\ passes = 0 /\ prevTokens = <<>> /\ lastRule = NoRule

\* The state after encoder = BPEEncoder(m): __init__ has run _build_vocab.
Init ==
    /\ \E m \in Tables :
           LET e == Construct(m, DefaultVocabSize)
           IN /\ status = e.status /\ merges = e.merges
              /\ vocab_size = e.vocab_size /\ vocab = e.vocab
              /\ ret = Call("__init__", m, e.status)
    /\ NoActivation
    /\ file = NoFile
    /\ loaded = NoEncoder("none")

\* The state before app.py / example_usage.py load merges.json.
InitFile ==
    /\ status = "none" /\ merges = <<>> /\ vocab_size = 0 /\ vocab = <<>>
    /\ ret = NoCall
    /\ NoActivation
    /\ file \in Files
    /\ loaded = NoEncoder("none")

\* The encoder exists, no call is running and the last result has been taken.
Idle == status = "ok" /\ pc = "idle" /\ ret.op = "none"

\* The caller takes what the last call returned or raised and goes on.
TakeResult ==
    /\ pc = "idle"
    /\ ret.op # "none"
    /\ ret' = NoCall
    /\ UNCHANGED <<status, merges, vocab_size, vocab, pc, caller, text, tokens,
                   passes, prevTokens, lastRule, file, loaded>>

\* encoder = BPEEncoder.from_file("merges.json")
LoadEncoder ==
    /\ status = "none" /\ ret.op = "none"
    /\ LET e == FromFile(file)
       IN /\ status' = e.status /\ merges' = e.merges
          /\ vocab_size' = e.vocab_size /\ vocab' = e.vocab
          /\ ret' = Call("load_encoder", <<>>, e.status)
    /\ UNCHANGED <<pc, caller, text, tokens, passes, prevTokens, lastRule, file, loaded>>

\* encoder.encode(t): tokens = list(text.encode("utf-8"))
StartEncode(t, who) ==
    /\ pc' = "encode" /\ caller' = who /\ text' = t /\ tokens' = Utf8Encode(t)
    /\ passes' = 0 /\ prevTokens' = <<>> /\ lastRule' = NoRule
    /\ UNCHANGED <<status, merges, vocab_size, vocab, ret, file, loaded>>

EncodeCall ==
    /\ Idle
    /\ \E t \in Texts : StartEncode(t, "encode")

\* app.roundtrip(t): an empty text is answered without encoding
RoundtripCall ==
    /\ Idle
    /\ \E t \in Texts :
           IF t = <<>>
           THEN /\ ret' = Call("roundtrip", t,
                                [err |-> "Please enter some text.", tokens |-> <<>>,
                                 decoded |-> <<>>, match |-> FALSE])
                /\ UNCHANGED <<status, merges, vocab_size, vocab, pc, caller, text,
                               tokens, passes, prevTokens, lastRule, file, loaded>>
           ELSE StartEncode(t, "roundtrip")

\* a loop that looks only at the first adjacent pair
LoopDoneFirstPair(m, toks) ==
    IF Len(toks) < 2 THEN TRUE ELSE PairAt(toks, 1) \notin Keys(m)

\* the while condition of encode and its break
LoopDone(m, toks) ==
    IF Len(toks) < 2 THEN TRUE ELSE MinPair(m, GetStats(toks)) \notin Keys(m)

\* One pass of the while loop of encode that merges.
EncodePass ==
    /\ pc = "encode"
    /\ ~LoopDone(merges, tokens)
    /\ LET pair == MinPair(merges, GetStats(tokens))
           idx == Lookup(merges, pair)
       IN /\ tokens' = Merge(tokens, pair, idx)
          /\ lastRule' = [pair |-> pair, idx |-> idx]
    /\ prevTokens' = tokens
    /\ passes' = passes + 1
    /\ UNCHANGED <<status, merges, vocab_size, vocab, pc, caller, text, ret, file, loaded>>

\* return tokens; app.roundtrip goes on to decode them and compare
EncodeReturn ==
    /\ pc = "encode"
    /\ LoopDone(merges, tokens)
    /\ ret' = IF caller = "roundtrip"
              THEN LET d == Decode(vocab, tokens)
                   IN Call("roundtrip", text,
                           [err |-> d.err, tokens |-> tokens, decoded |-> d.text,
                            match |-> (d.err = "none" /\ text = d.text)])
              ELSE Call("encode", text, tokens)
    /\ pc' = "idle" /\ caller' = "none" /\ text' = <<>> /\ tokens' = <<>>
    /\ passes' = 0 /\ prevTokens' = <<>> /\ lastRule' = NoRule
    /\ UNCHANGED <<status, merges, vocab_size, vocab, file, loaded>>

\* encoder.decode(ids)
DecodeCall ==
    /\ Idle
    /\ \E ids \in IdLists :
           ret' = Call("decode", ids, Decode(vocab, ids))
    /\ UNCHANGED <<status, merges, vocab_size, vocab, pc, caller, text, tokens,
                   passes, prevTokens, lastRule, file, loaded>>

\* save that empties self.merges while it writes the items out
SaveCallConsumes ==
    /\ status = "ok" /\ pc = "idle" /\ ret.op = "none"
    /\ file' = SaveData(merges, vocab_size)
    /\ merges' = <<>>
    /\ ret' = Call("save", <<>>, <<>>)
    /\ UNCHANGED <<status, vocab_size, vocab, pc, caller, text, tokens,
                   passes, prevTokens, lastRule, loaded>>

\* encoder.save(filepath)
SaveCall ==
    /\ Idle
    /\ file' = SaveData(merges, vocab_size)
    /\ ret' = Call("save", <<>>, <<>>)
    /\ UNCHANGED <<status, merges, vocab_size, vocab, pc, caller, text, tokens,
                   passes, prevTokens, lastRule, loaded>>

\* BPEEncoder.from_file(filepath), the file being the one save wrote if it has run
FromFileCall ==
    /\ Idle
    /\ loaded' = FromFile(file)
    /\ ret' = Call("from_file", <<>>, loaded'.status)
    /\ UNCHANGED <<status, merges, vocab_size, vocab, pc, caller, text, tokens,
                   passes, prevTokens, lastRule, file>>

GetVocabSize ==
    /\ Idle
    /\ ret' = Call("get_vocab_size", <<>>, vocab_size)
    /\ UNCHANGED <<status, merges, vocab_size, vocab, pc, caller, text, tokens,
                   passes, prevTokens, lastRule, file, loaded>>

GetNumMerges ==
    /\ Idle
    /\ ret' = Call("get_num_merges", <<>>, Len(merges))
    /\ UNCHANGED <<status, merges, vocab_size, vocab, pc, caller, text, tokens,
                   passes, prevTokens, lastRule, file, loaded>>

Next ==
    \/ EncodeCall
    \/ RoundtripCall
    \/ EncodePass
    \/ EncodeReturn
    \/ DecodeCall
    \/ SaveCall
    \/ FromFileCall
    \/ GetVocabSize
    \/ GetNumMerges
    \/ TakeResult

Spec == Init /\ [][Next]_vars

NextFile ==
    \/ LoadEncoder
    \/ SaveCall
    \/ FromFileCall
    \/ GetVocabSize
    \/ GetNumMerges
    \/ TakeResult

SpecFile == InitFile /\ [][NextFile]_vars

(***************************************************************************)
(* Properties                                                              *)
(***************************************************************************)
\* The data-model invariant of a merge table: every result above 255, results
\* unique, each side of a rule a base byte or the result of a lower-numbered rule.
ValidTable(m) ==
    \A i \in 1..Len(m) :
        /\ m[i].idx > BaseTokens - 1
        /\ \A j \in 1..Len(m) : j # i => m[j].idx # m[i].idx
        /\ \A side \in {m[i].pair[1], m[i].pair[2]} :
               \/ side \in 0..(BaseTokens - 1)
               \/ \E j \in 1..Len(m) : m[j].idx = side /\ m[j].idx < m[i].idx

\* C1: with a merge table that satisfies the data-model invariant, decoding what
\* encode returned gives the text back (app.roundtrip reports a match), and the
\* vocabulary entries of the returned ids concatenate to the UTF-8 bytes of the text.
C1_RoundTrip ==
    (status = "ok" /\ ValidTable(merges)) =>
        /\ (ret.op = "roundtrip" /\ ret.arg # <<>>) =>
               /\ ret.val.err = "none"
               /\ ret.val.match
               /\ ret.val.decoded = ret.arg
               /\ JoinVocab(vocab, ret.val.tokens) = Utf8Encode(ret.arg)
        /\ ret.op = "encode" =>
               /\ \A i \in 1..Len(ret.val) : ret.val[i] \in DOMAIN vocab
               /\ JoinVocab(vocab, ret.val) = Utf8Encode(ret.arg)
               /\ Decode(vocab, ret.val) = [err |-> "none", text |-> ret.arg]

\* A round trip of a text with a two-byte character through a two-rule table
\* whose second rule builds on the first, with fewer tokens than bytes.
C1_Witness ==
    /\ status = "ok" /\ ValidTable(merges) /\ Len(merges) = 2
    /\ \E i \in 1..2 : merges[i].pair[1] > BaseTokens - 1
    /\ ret.op = "roundtrip" /\ ret.val.match
    /\ \E i \in 1..Len(ret.arg) : ret.arg[i] > 127
    /\ Len(ret.val.tokens) < Len(Utf8Encode(ret.arg))

\* C2 (as claimed): an encoder that from_file returned has no result at or
\* below 255 and no result shared by two rules.
C2_LoadRejectsBadResults ==
    (ret.op = "load_encoder" /\ status = "ok") =>
        \A i \in 1..Len(merges) :
            /\ merges[i].idx > BaseTokens - 1
            /\ \A j \in 1..Len(merges) : j # i => merges[j].idx # merges[i].idx

SignedDigits(f) ==
    LET u == IF f # <<>> /\ Head(f) \in {"+", "-"} THEN Tail(f) ELSE f
    IN u # <<>> /\ \A i \in 1..Len(u) : IsDigit(u[i])

\* "<left>,<right>": two decimal integers, one comma, no whitespace
StrictKey(key) ==
    /\ Len(Split(key)) = 2
    /\ SignedDigits(Split(key)[1])
    /\ SignedDigits(Split(key)[2])

\* C3 (as claimed): from_file raises, and returns no encoder, whenever some key
\* of the file is not of the form "<left>,<right>".
C3_LoadRejectsMalformedKeys ==
    (ret.op = "load_encoder"
        /\ \E k \in 1..Len(file.merges) : ~StrictKey(file.merges[k].key)) =>
        status # "ok"

\* C4: decode of a list that holds an id that is neither a base byte nor the
\* result of a rule raises (KeyError) and returns no text, wherever the id stands.
C4_DecodeUnknownToken ==
    (ret.op = "decode"
        /\ \E i \in 1..Len(ret.arg) :
               ret.arg[i] \notin (0..(BaseTokens - 1)) \cup Values(merges)) =>
        ret.val.err = "KeyError" /\ ret.val.text = <<>>

\* The unknown id is the last of the list, after an id that has an entry.
C4_Witness ==
    /\ ret.op = "decode" /\ Len(ret.arg) = 2
    /\ ret.arg[1] \in Values(merges)
    /\ ret.arg[2] \notin (0..(BaseTokens - 1)) \cup Values(merges)
    /\ ret.val.err = "KeyError"

ItemSet(m) == {m[i] : i \in 1..Len(m)}

\* C5: from_file of the file that save wrote returns an encoder with the same
\* (left, right) -> result entries and the same vocab_size, whatever the order
\* of the items; the file's num_merges is the number of rules.
C5_SaveLoadRoundTrip ==
    (ret.op = "from_file" /\ file.exists /\ ~file.description) =>
        /\ loaded.status = "ok"
        /\ ItemSet(loaded.merges) = ItemSet(merges)
        /\ Len(loaded.merges) = Len(merges)
        /\ loaded.vocab_size = vocab_size
        /\ file.num_merges = Len(merges)
        /\ Len(file.merges) = Len(merges)

\* A saved and reloaded two-rule table whose dict order is not its result order,
\* with a pair whose two ids differ and a vocab_size that is not the default.
C5_Witness ==
    /\ ret.op = "from_file" /\ file.exists /\ ~file.description
    /\ loaded.status = "ok" /\ Len(merges) = 2
    /\ merges[1].idx > merges[2].idx
    /\ \E i \in 1..2 : merges[i].pair[1] # merges[i].pair[2]
    /\ vocab_size # DefaultVocabSize

\* Left-to-right non-overlapping occurrences of pair in ids: an occurrence is
\* taken unless the occurrence just before it was taken.
TakenAt(ids, pair) ==
    CHOOSE S \in SUBSET (1..(Len(ids) - 1)) :
        \A i \in 1..(Len(ids) - 1) :
            i \in S <=> (PairAt(ids, i) = pair /\ (i - 1) \notin S)

\* ids with each taken occurrence replaced by idx
Replaced(ids, S, idx) ==
    LET starts == {i \in 1..Len(ids) : (i - 1) \notin S}
        nth(k) == CHOOSE i \in starts : Cardinality({j \in starts : j <= i}) = k
    IN [k \in 1..Cardinality(starts) |-> IF nth(k) \in S THEN idx ELSE ids[nth(k)]]

\* C6: every merge pass of encode applies the rule of lowest result among the
\* rules of the adjacent pairs present, and replaces every non-overlapping
\* occurrence of that pair, left to right, and nothing else.
C6_MonotonicPriority ==
    [][(pc = "encode" /\ passes' = passes + 1) =>
          /\ lastRule'.pair \in Keys(merges)
          /\ lastRule'.idx = Lookup(merges, lastRule'.pair)
          /\ \E i \in 1..(Len(tokens) - 1) : PairAt(tokens, i) = lastRule'.pair
          /\ \A i \in 1..(Len(tokens) - 1) :
                 PairAt(tokens, i) \in Keys(merges) =>
                     lastRule'.idx <= Lookup(merges, PairAt(tokens, i))
          /\ tokens' = Replaced(tokens, TakenAt(tokens, lastRule'.pair), lastRule'.idx)
      ]_vars

\* A pass that merged a pair occurring twice while a pair of a rule with a higher
\* result stood in the sequence, the higher rule being first in the dict.
C6_Witness ==
    /\ pc = "encode" /\ passes = 1
    /\ Occurrences(prevTokens, lastRule.pair) >= 2
    /\ Len(merges) = 2 /\ merges[2].pair = lastRule.pair
    /\ \E i \in 1..(Len(prevTokens) - 1) :
           /\ PairAt(prevTokens, i) \in Keys(merges)
           /\ Lookup(merges, PairAt(prevTokens, i)) > lastRule.idx

\* C7 (as claimed): once construction has accepted a table, vocab[id] is the
\* byte id for every id below 256 and vocab[result] = vocab[left] ++ vocab[right]
\* for every rule.
C7_VocabInvariant ==
    status = "ok" =>
        /\ \A id \in 0..(BaseTokens - 1) : vocab[id] = <<id>>
        /\ \A i \in 1..Len(merges) :
               vocab[merges[i].idx] = vocab[merges[i].pair[1]] \o vocab[merges[i].pair[2]]

\* C8: no call changes the encoder: merges, vocab_size and the cached vocabulary
\* stay as __init__ left them.
C8_Immutable == [][UNCHANGED <<status, merges, vocab_size, vocab>>]_vars

\* A save has run after other calls on an encoder with two rules.
C8_Witness ==
    /\ status = "ok" /\ Len(merges) = 2
    /\ ret.op = "save" /\ file.exists /\ loaded.status = "FileNotFoundError"

\* C9: the sequence encode returns has no adjacent pair that is a key of the
\* merge table.
C9_FixedPoint ==
    /\ ret.op = "encode" =>
           \A i \in 1..(Len(ret.val) - 1) : PairAt(ret.val, i) \notin Keys(merges)
    /\ (ret.op = "roundtrip" /\ ret.arg # <<>>) =>
           \A i \in 1..(Len(ret.val.tokens) - 1) :
               PairAt(ret.val.tokens, i) \notin Keys(merges)

\* encode returned at least two tokens, one of them a merged token, from a
\* two-rule table.
C9_Witness ==
    /\ ret.op = "encode" /\ Len(merges) = 2
    /\ Len(ret.val) >= 2
    /\ Len(ret.val) < Len(Utf8Encode(ret.arg))

\* C10: every merge pass shortens the sequence, so a running encode of n bytes
\* has done at most n - len(tokens) passes, at most n - 1 when n >= 1, and it
\* can always either merge again or return.
C10_EncodeTerminates ==
    pc = "encode" =>
        LET n == Len(Utf8Encode(text))
        IN /\ passes >= 1 => Len(tokens) < Len(prevTokens)
           /\ Len(tokens) + passes <= n
           /\ n >= 1 => passes <= n - 1
           /\ Len(tokens) >= 1 \/ n = 0

\* n - 1 passes (at least two) with a table that has a result at or below 255.
C10_Witness ==
    /\ pc = "encode" /\ passes >= 2
    /\ passes = Len(Utf8Encode(text)) - 1
    /\ \E i \in 1..Len(merges) : merges[i].idx <= BaseTokens - 1

====
